---- MODULE Spec2Model ----
(***************************************************************************)
(* Research Hub local proxy (server.py): the cache store on disk, the      *)
(* request resolver (Handler.proxy_api), the live fetch                    *)
(* (Handler._fetch_and_respond) and the background refresh                 *)
(* (Handler._bg_refresh), as threads interleaving over one cache file and  *)
(* one lock.                                                               *)
(*                                                                         *)
(* Conventions.  A payload (a Python str) and an upstream body (bytes) are *)
(* named by a token; a str is named by the token of its UTF-8 encoding, so *)
(* _send_json's encode needs no operator of its own, and Decode says where *)
(* bytes -> str is lossy.  Time is in whole seconds.                       *)
(*                                                                         *)
(* Each action is one stretch of a thread's code between two points where  *)
(* other threads can see or change what it works on: the lock, the file,   *)
(* the clock, the upstream.  _send_json and Thread.start are taken to      *)
(* return normally (the client is still connected).                        *)
(*                                                                         *)
(* Spec is the server with a disk that works; FaultSpec adds a Save that   *)
(* fails and a process that is killed and started again; LiveSpec is Spec  *)
(* with fair scheduling of the server's threads; DetachedSpec is Spec with *)
(* fair scheduling of the handler threads, and of a refresh thread only    *)
(* while it saves.                                                         *)
(***************************************************************************)
EXTENDS Integers, FiniteSets, Sequences, TLC

(* ---- bounds of the model ---------------------------------------------- *)
MaxReq == 2
MaxTicks == 1

Reqs == 1..MaxReq
Keys == {"k1", "k2"}

(* ---- program constants ------------------------------------------------ *)
CACHE_TTL == 60 * 60 * 24

(* The clock at the start of the run, and how old a persisted entry of an  *)
(* earlier run is: one second short of the TTL, or two days.               *)
Now0 == 2 * CACHE_TTL
InitAges == {CACHE_TTL - 1, 2 * CACHE_TTL}
TickSteps == {1, CACHE_TTL}

(* ---- values ----------------------------------------------------------- *)
\* Python's None where a str is expected.
None == "<None>"
\* `if x:` on a str-or-None.
Truthy(x) == x # None /\ x # ""

\* Bodies a 2xx upstream response may carry.
\*   d0, d1   {"data": [...]}            dEmpty  {"data": []}
\*   msg      {"message": "..."}         msgBad  the same, with a byte that is
\*   unk      {"total": 0}                       not valid UTF-8 in the text
\*   list     []                         junk    not JSON
\*   dNull    {"data": null}
\* d0 and d1 hold paper titles with letters outside ASCII.
OkBodies ==
    {"d1", "dEmpty", "dNull", "msg", "msgBad", "unk", "list", "junk"}
\* Payloads that an earlier run of the server has persisted.
OldPayloads == {"d0"}

\* resp.read().decode('utf-8', errors='replace'): the identity on valid
\* UTF-8, U+FFFD for each invalid byte.
Decode(b) == IF b = "msgBad" THEN "msgRepl" ELSE b

\* json.dumps({'message': str(e), 'data': None}) for the exception e.
ErrJson(e) ==
    CASE e = "timeout" -> "E:timeout"
      [] e = "JSONDecodeError" -> "E:JSONDecodeError"
      [] OTHER -> "E:AttributeError"

\* json.loads(raw), as far as the code looks at the result: whether raw is
\* JSON at all, whether it is an object, data.get('data') (absent and null
\* both give None) and 'message' in data.
Parse(raw) ==
    CASE raw \in {"d0", "d1"} ->
            [json |-> TRUE, dict |-> TRUE, data |-> "list", message |-> FALSE]
      [] raw = "dEmpty" ->
            [json |-> TRUE, dict |-> TRUE, data |-> "empty", message |-> FALSE]
      [] raw \in {"msg", "msgRepl"} ->
            [json |-> TRUE, dict |-> TRUE, data |-> "absent", message |-> TRUE]
      [] raw \in {"E:timeout", "E:JSONDecodeError", "E:AttributeError"} ->
            [json |-> TRUE, dict |-> TRUE, data |-> "null", message |-> TRUE]
      [] raw = "unk" ->
            [json |-> TRUE, dict |-> TRUE, data |-> "absent", message |-> FALSE]
      [] raw = "dNull" ->
            [json |-> TRUE, dict |-> TRUE, data |-> "null", message |-> FALSE]
      [] raw = "list" ->
            [json |-> TRUE, dict |-> FALSE, data |-> "absent", message |-> FALSE]
      [] OTHER ->
            [json |-> FALSE, dict |-> FALSE, data |-> "absent", message |-> FALSE]

\* data.get('data') is not None
DataNotNone(p) == p.data \in {"list", "empty"}

\* A body whose transfer breaks off (the connection is reset, or stalls past
\* the socket timeout): read() raises.
ReadFails(b) == b = "cut"

\* What the upstream may answer to one call: a 2xx response, a non-2xx
\* response, or no response within API_TIMEOUT / a transport failure.
Upstream ==
    [kind : {"ok"}, code : {200}, body : OkBodies]
    \cup {[kind |-> "http", code |-> 403, body |-> "msg"],
          [kind |-> "http", code |-> 503, body |-> "junk"],
          [kind |-> "http", code |-> 500, body |-> "cut"]}
    \cup {[kind |-> "fail", code |-> 0, body |-> None]}
NoCall == [kind |-> "none", code |-> 0, body |-> None]

\* The cache dict: a function from some keys to {'ts', 'data'}.
EmptyMap == <<>>
Entry(t, raw) == [ts |-> t, data |-> raw]

NoResp == [status |-> 0, body |-> None]
NoThread == <<0, "none">>
ReqThread(r) == <<r, "req">>
BgThread(r) == <<r, "bg">>

VARIABLES
    now,      \* time.time()
    ticks,    \* how often the clock has advanced
    disk,     \* CACHE_FILE: [kind, doc]
    lock,     \* _cache_lock: the thread holding it, or NoThread
    warnings, \* 'Warning: could not save cache' lines printed
    pc,       \* pc[r]: where request r's handler thread is
    key,      \* key[r]: the query string of request r
    snap,     \* snap[r]: `cache` of proxy_api, the loaded snapshot
    path,     \* path[r]: the branch proxy_api took
    resp,     \* resp[r]: what _send_json sent to r's client
    calls,    \* calls[r]: upstream calls begun on behalf of r
    got,      \* got[r]: what the upstream answered to the handler's call
    wreq,     \* wreq[r]: `cache` of _fetch_and_respond inside the lock
    bg,       \* bg[r]: where r's background refresh thread is
    bgGot,    \* bgGot[r]: what the upstream answered to the refresh's call
    wbg,      \* wbg[r]: `cache` of _bg_refresh inside the lock
    tchk,     \* tchk[r]: the time.time() that get_cached read for r
    writes,   \* writes[r]: how often a thread of r has written CACHE_FILE
    preSave,  \* CACHE_FILE as it was when the latest save_cache was entered
    saveRes   \* how the latest save_cache ended: none, running, ok, failed

vars == <<now, ticks, disk, lock, warnings, pc, key, snap, path, resp, calls,
          got, wreq, bg, bgGot, wbg, tchk, writes, preSave, saveRes>>

(* ---- the cache file --------------------------------------------------- *)
\* CACHE_FILE does not exist / holds the JSON of doc / was truncated by
\* open(.., 'w') and holds none or only a part of the JSON text.
Missing == [kind |-> "missing", doc |-> EmptyMap]
Valid(doc) == [kind |-> "valid", doc |-> doc]
Partial == [kind |-> "partial", doc |-> EmptyMap]

\* The strs with a character outside ASCII.
NonAscii(s) == s \in {"d0", "d1", "msgRepl"}

\* json.dump of a str (ensure_ascii is on): the text between quotes, with
\* every " and \ escaped (each payload has some) and every character
\* outside ASCII written as \uXXXX.  The literal is named by the str with a
\* mark for each kind of escape in it.
\* json_dumps_ascii_replace: a dump that writes '?' for each character
\* outside ASCII (the file opened with encoding='ascii', errors='replace').
json_dumps_ascii_replace(s) ==
    IF NonAscii(s) THEN s \o "?\\q" ELSE s \o "\\q"

json_dumps_str(s) == IF NonAscii(s) THEN s \o "\\q\\u" ELSE s \o "\\q"

\* json.load of a string literal: the escapes are undone.
json_loads_str(t) ==
    CASE t = "d0\\q\\u" -> "d0"
      [] t = "d1\\q\\u" -> "d1"
      [] t = "msgRepl\\q\\u" -> "msgRepl"
      [] t = "dEmpty\\q" -> "dEmpty"
      [] t = "dNull\\q" -> "dNull"
      [] t = "msg\\q" -> "msg"
      [] t = "unk\\q" -> "unk"
      [] OTHER -> t

\* json.load of the file, {} on any exception.  (A ts is a float, which
\* json writes with repr and reads back exactly.)
load_cache(d) ==
    IF d.kind = "valid"
    THEN [k \in DOMAIN d.doc |->
            Entry(d.doc[k].ts, json_loads_str(d.doc[k].data))]
    ELSE EmptyMap

\* save_cache, step 1: open(CACHE_FILE, 'w') truncates the file.
save_open(d) == Partial
\* save_cache, step 2: json.dump has written all of cache, the file is closed.
save_dump(cache) ==
    Valid([k \in DOMAIN cache |->
             Entry(cache[k].ts, json_dumps_str(cache[k].data))])

\* cache[key] = {'ts': time.time(), 'data': raw}
Put(cache, k, t, raw) ==
    [x \in DOMAIN cache \cup {k} |-> IF x = k THEN Entry(t, raw) ELSE cache[x]]

\* get_cached with a TTL of 24 minutes (60 * 24) instead of 24 hours.
get_cached_shortTTL(cache, k, t) ==
    IF k \in DOMAIN cache /\ (t - cache[k].ts) < 60 * 24
    THEN cache[k].data
    ELSE None

\* entry = cache.get(key); if entry and (time.time() - entry['ts']) < CACHE_TTL
\* (an entry is a dict with 'ts' and 'data', so `entry and` asks only whether
\* the key is there).
get_cached(cache, k, t) ==
    IF k \in DOMAIN cache /\ (t - cache[k].ts) < CACHE_TTL
    THEN cache[k].data
    ELSE None

\* get_stale that, like get_cached, gives up an expired entry.
get_stale_unexpired(cache, k) == get_cached(cache, k, now)

get_stale(cache, k) == IF k \in DOMAIN cache THEN cache[k].data ELSE None

(* ---- the upstream call ------------------------------------------------ *)
\* _fetch_api on the upstream's answer u: the exception it raises, if any,
\* raw and json.loads(raw).
fetch_api(u) ==
    IF u.kind = "fail" \/ (u.kind = "ok" /\ ReadFails(u.body))
    THEN [exc |-> "timeout", raw |-> None, data |-> Parse(None)]
    ELSE IF u.kind = "http"
    THEN [exc |-> "HTTPError", raw |-> None, data |-> Parse(None)]
    ELSE IF ~Parse(Decode(u.body)).json
    THEN [exc |-> "JSONDecodeError", raw |-> Decode(u.body), data |-> Parse(None)]
    ELSE [exc |-> "none", raw |-> Decode(u.body), data |-> Parse(Decode(u.body))]

\* The outcome of a handler that an exception left before it sent anything.
Raised == [store |-> FALSE, status |-> 0, body |-> None]

\* _fetch_and_respond, the except clauses: an HTTPError is passed through
\* with its code and body, any other exception becomes a 502.  e.read() is
\* called inside the except clause: when it raises, no clause catches that.
\* (store: whether the answer is cached; status, body: what is sent.)
\* on_exception_500: the same with status 500 for the other exceptions.
on_exception_500(exc, u) ==
    IF exc = "HTTPError"
    THEN IF ReadFails(u.body)
         THEN Raised
         ELSE [store |-> FALSE, status |-> u.code, body |-> Decode(u.body)]
    ELSE [store |-> FALSE, status |-> 500, body |-> ErrJson(exc)]

\* on_exception_synth: every exception, an HTTPError too, becomes a 502.
on_exception_synth(exc, u) ==
    [store |-> FALSE, status |-> 502, body |-> ErrJson(exc)]

on_exception(exc, u) ==
    IF exc = "HTTPError"
    THEN IF ReadFails(u.body)
         THEN Raised
         ELSE [store |-> FALSE, status |-> u.code, body |-> Decode(u.body)]
    ELSE [store |-> FALSE, status |-> 502, body |-> ErrJson(exc)]

\* _fetch_and_respond, the try block after _fetch_api has returned raw and
\* data: data.get raises AttributeError when data is no dict.
\* on_parsed_no_elif: the same without the elif 'message' branch.
on_parsed_no_elif(raw, data) ==
    IF ~data.dict
    THEN on_exception("AttributeError", NoCall)
    ELSE IF DataNotNone(data)
    THEN [store |-> TRUE, status |-> 200, body |-> raw]
    ELSE [store |-> FALSE, status |-> 200, body |-> raw]

\* on_parsed_cache_unknown: the same, but whatever has no 'message' is cached.
on_parsed_cache_unknown(raw, data) ==
    IF ~data.dict
    THEN on_exception("AttributeError", NoCall)
    ELSE IF DataNotNone(data) \/ ~data.message
    THEN [store |-> TRUE, status |-> 200, body |-> raw]
    ELSE [store |-> FALSE, status |-> 429, body |-> raw]

on_parsed(raw, data) ==
    IF ~data.dict
    THEN on_exception("AttributeError", NoCall)
    ELSE IF DataNotNone(data)
    THEN [store |-> TRUE, status |-> 200, body |-> raw]
    ELSE IF data.message
    THEN [store |-> FALSE, status |-> 429, body |-> raw]
    ELSE [store |-> FALSE, status |-> 200, body |-> raw]

\* _fetch_and_respond after the call: whether the answer is cached, and the
\* status and body sent.
fetch_and_respond(u) ==
    LET f == fetch_api(u) IN
    IF f.exc = "none" THEN on_parsed(f.raw, f.data) ELSE on_exception(f.exc, u)

\* _bg_refresh that caches whatever parsed as an object.
bg_refresh_unchecked(u) ==
    LET f == fetch_api(u) IN
    f.exc = "none" /\ f.data.dict

\* _bg_refresh after the call: whether the answer is cached.
bg_refresh(u) ==
    LET f == fetch_api(u) IN
    f.exc = "none" /\ f.data.dict /\ DataNotNone(f.data)

(* ---- initial state ---------------------------------------------------- *)
\* The cache files an earlier run can have left: none, or a mapping of some
\* keys to a payload the server cached then.
InitDocs ==
    UNION {[ks -> {Entry(Now0 - a, p) : a \in InitAges, p \in OldPayloads}] :
           ks \in SUBSET Keys}

Init ==
    /\ now = Now0
    /\ ticks = 0
    /\ disk \in {Missing} \cup {save_dump(d) : d \in InitDocs}
    /\ lock = NoThread
    /\ warnings = 0
    /\ pc = [r \in Reqs |-> "idle"]
    /\ key = [r \in Reqs |-> None]
    /\ snap = [r \in Reqs |-> EmptyMap]
    /\ path = [r \in Reqs |-> "none"]
    /\ resp = [r \in Reqs |-> NoResp]
    /\ calls = [r \in Reqs |-> 0]
    /\ got = [r \in Reqs |-> NoCall]
    /\ wreq = [r \in Reqs |-> EmptyMap]
    /\ bg = [r \in Reqs |-> "none"]
    /\ bgGot = [r \in Reqs |-> NoCall]
    /\ wbg = [r \in Reqs |-> EmptyMap]
    /\ tchk = [r \in Reqs |-> 0]
    /\ writes = [r \in Reqs |-> 0]
    /\ preSave = disk
    /\ saveRes = "none"

(* ---- Handler.proxy_api ------------------------------------------------ *)
\* A GET /api/papers?<k> arrives; ThreadingMixIn gives it a thread of its
\* own.  Requests are numbered in the order they arrive.
Request(r, k) ==
    /\ pc[r] = "idle"
    /\ \A q \in Reqs : q < r => pc[q] # "idle"
    /\ pc' = [pc EXCEPT ![r] = "load"]
    /\ key' = [key EXCEPT ![r] = k]
    /\ UNCHANGED <<now, ticks, disk, lock, warnings, snap, path, resp, calls,
                   got, wreq, bg, bgGot, wbg, tchk, writes, preSave, saveRes>>

\* proxy_api whose load_cache has no try/except: a file that cannot be read
\* or parsed ends the handler thread.
LoadNoCatch(r) ==
    /\ pc[r] = "load"
    /\ lock = NoThread
    /\ snap' = [snap EXCEPT ![r] = load_cache(disk)]
    /\ pc' = [pc EXCEPT ![r] =
                IF disk.kind = "valid" THEN "fresh_check" ELSE "died"]
    /\ UNCHANGED <<now, ticks, disk, lock, warnings, key, path, resp, calls,
                   got, wreq, bg, bgGot, wbg, tchk, writes, preSave, saveRes>>

\* with _cache_lock: cache = load_cache()
Load(r) ==
    /\ pc[r] = "load"
    /\ lock = NoThread
    /\ snap' = [snap EXCEPT ![r] = load_cache(disk)]
    /\ pc' = [pc EXCEPT ![r] = "fresh_check"]
    /\ UNCHANGED <<now, ticks, disk, lock, warnings, key, path, resp, calls,
                   got, wreq, bg, bgGot, wbg, tchk, writes, preSave, saveRes>>

\* proxy_api that, on a fresh hit, also stamps the entry with the time of the
\* hit and saves the snapshot.
FreshCheckTouch(r) ==
    /\ pc[r] = "fresh_check"
    /\ tchk' = [tchk EXCEPT ![r] = now]
    /\ LET fresh == get_cached(snap[r], key[r], now) IN
       IF Truthy(fresh)
       THEN /\ resp' = [resp EXCEPT ![r] = [status |-> 200, body |-> fresh]]
            /\ path' = [path EXCEPT ![r] = "fresh"]
            /\ pc' = [pc EXCEPT ![r] = "done"]
            /\ disk' = save_dump(Put(snap[r], key[r], now, fresh))
            /\ writes' = [writes EXCEPT ![r] = @ + 1]
       ELSE /\ pc' = [pc EXCEPT ![r] = "stale_check"]
            /\ UNCHANGED <<resp, path, disk, writes>>
    /\ UNCHANGED <<now, ticks, lock, warnings, key, snap, calls, got, wreq, bg,
                   bgGot, wbg, preSave, saveRes>>

\* fresh = get_cached(cache, key); if fresh: self._send_json(200, fresh); return
FreshCheck(r) ==
    /\ pc[r] = "fresh_check"
    /\ tchk' = [tchk EXCEPT ![r] = now]
    /\ LET fresh == get_cached(snap[r], key[r], now) IN
       IF Truthy(fresh)
       THEN /\ resp' = [resp EXCEPT ![r] = [status |-> 200, body |-> fresh]]
            /\ path' = [path EXCEPT ![r] = "fresh"]
            /\ pc' = [pc EXCEPT ![r] = "done"]
       ELSE /\ pc' = [pc EXCEPT ![r] = "stale_check"]
            /\ UNCHANGED <<resp, path>>
    /\ UNCHANGED <<now, ticks, disk, lock, warnings, key, snap, calls, got,
                   wreq, bg, bgGot, wbg, writes, preSave, saveRes>>

\* proxy_api that loads the file a second time for the stale check.
StaleCheckReload(r) ==
    /\ pc[r] = "stale_check"
    /\ LET stale == get_stale(load_cache(disk), key[r]) IN
       IF Truthy(stale)
       THEN /\ resp' = [resp EXCEPT ![r] = [status |-> 200, body |-> stale]]
            /\ path' = [path EXCEPT ![r] = "stale"]
            /\ pc' = [pc EXCEPT ![r] = "spawn"]
       ELSE /\ path' = [path EXCEPT ![r] = "miss"]
            /\ pc' = [pc EXCEPT ![r] = "fetch"]
            /\ UNCHANGED resp
    /\ UNCHANGED <<now, ticks, disk, lock, warnings, key, snap, calls, got,
                   wreq, bg, bgGot, wbg, tchk, writes, preSave, saveRes>>

\* stale = get_stale(cache, key); if stale: self._send_json(200, stale) ...
\* else self._fetch_and_respond(params, key)
StaleCheck(r) ==
    /\ pc[r] = "stale_check"
    /\ LET stale == get_stale(snap[r], key[r]) IN
       IF Truthy(stale)
       THEN /\ resp' = [resp EXCEPT ![r] = [status |-> 200, body |-> stale]]
            /\ path' = [path EXCEPT ![r] = "stale"]
            /\ pc' = [pc EXCEPT ![r] = "spawn"]
       ELSE /\ path' = [path EXCEPT ![r] = "miss"]
            /\ pc' = [pc EXCEPT ![r] = "fetch"]
            /\ UNCHANGED resp
    /\ UNCHANGED <<now, ticks, disk, lock, warnings, key, snap, calls, got,
                   wreq, bg, bgGot, wbg, tchk, writes, preSave, saveRes>>

\* proxy_api that returns after the stale response without starting the
\* refresh thread.
SpawnNothing(r) ==
    /\ pc[r] = "spawn"
    /\ pc' = [pc EXCEPT ![r] = "done"]
    /\ UNCHANGED <<now, ticks, disk, lock, warnings, key, snap, path, resp,
                   calls, got, wreq, bg, bgGot, wbg, tchk, writes, preSave,
                   saveRes>>

\* threading.Thread(target=self._bg_refresh, ...).start(); return
Spawn(r) ==
    /\ pc[r] = "spawn"
    /\ bg' = [bg EXCEPT ![r] = "fetch"]
    /\ pc' = [pc EXCEPT ![r] = "done"]
    /\ UNCHANGED <<now, ticks, disk, lock, warnings, key, snap, path, resp,
                   calls, got, wreq, bgGot, wbg, tchk, writes, preSave, saveRes>>

(* ---- Handler._fetch_and_respond --------------------------------------- *)
\* _fetch_api: urlopen(req, timeout=API_TIMEOUT) is entered.
FetchBegin(r) ==
    /\ pc[r] = "fetch"
    /\ calls' = [calls EXCEPT ![r] = @ + 1]
    /\ pc' = [pc EXCEPT ![r] = "fetching"]
    /\ UNCHANGED <<now, ticks, disk, lock, warnings, key, snap, path, resp,
                   got, wreq, bg, bgGot, wbg, tchk, writes, preSave, saveRes>>

\* _fetch_and_respond that calls the upstream once more after an exception
\* that is no HTTPError.
FetchEndRetry(r, u) ==
    /\ pc[r] = "fetching"
    /\ got' = [got EXCEPT ![r] = u]
    /\ LET o == fetch_and_respond(u) IN
       IF o.store
       THEN /\ pc' = [pc EXCEPT ![r] = "rmw"]
            /\ UNCHANGED resp
       ELSE IF o.status = 502 /\ calls[r] < 2
       THEN /\ pc' = [pc EXCEPT ![r] = "fetch"]
            /\ UNCHANGED resp
       ELSE IF o = Raised
       THEN /\ pc' = [pc EXCEPT ![r] = "died"]
            /\ UNCHANGED resp
       ELSE /\ resp' = [resp EXCEPT ![r] = [status |-> o.status, body |-> o.body]]
            /\ pc' = [pc EXCEPT ![r] = "done"]
    /\ UNCHANGED <<now, ticks, disk, lock, warnings, key, snap, path, calls,
                   wreq, bg, bgGot, wbg, tchk, writes, preSave, saveRes>>

\* The call returns or raises.  A Success goes on to the cache write; every
\* other outcome is answered at once, unless an exception leaves proxy_api:
\* then socketserver prints the traceback and closes the connection.
FetchEnd(r, u) ==
    /\ pc[r] = "fetching"
    /\ got' = [got EXCEPT ![r] = u]
    /\ LET o == fetch_and_respond(u) IN
       IF o.store
       THEN /\ pc' = [pc EXCEPT ![r] = "rmw"]
            /\ UNCHANGED resp
       ELSE IF o = Raised
       THEN /\ pc' = [pc EXCEPT ![r] = "died"]
            /\ UNCHANGED resp
       ELSE /\ resp' = [resp EXCEPT ![r] = [status |-> o.status, body |-> o.body]]
            /\ pc' = [pc EXCEPT ![r] = "done"]
    /\ UNCHANGED <<now, ticks, disk, lock, warnings, key, snap, path, calls,
                   wreq, bg, bgGot, wbg, tchk, writes, preSave, saveRes>>

\* _fetch_and_respond that puts its entry into the snapshot proxy_api
\* loaded instead of loading the file again inside the lock.
RmwLoadSnapshot(r) ==
    /\ pc[r] = "rmw"
    /\ lock = NoThread
    /\ lock' = ReqThread(r)
    /\ wreq' = [wreq EXCEPT ![r] =
                  Put(snap[r], key[r], now, fetch_api(got[r]).raw)]
    /\ pc' = [pc EXCEPT ![r] = "save_open"]
    /\ UNCHANGED <<now, ticks, disk, warnings, key, snap, path, resp, calls,
                   got, bg, bgGot, wbg, tchk, writes, preSave, saveRes>>

\* with _cache_lock: cache = load_cache(); cache[key] = {...}
RmwLoad(r) ==
    /\ pc[r] = "rmw"
    /\ lock = NoThread
    /\ lock' = ReqThread(r)
    /\ wreq' = [wreq EXCEPT ![r] =
                  Put(load_cache(disk), key[r], now, fetch_api(got[r]).raw)]
    /\ pc' = [pc EXCEPT ![r] = "save_open"]
    /\ UNCHANGED <<now, ticks, disk, warnings, key, snap, path, resp, calls,
                   got, bg, bgGot, wbg, tchk, writes, preSave, saveRes>>

\* save_cache(cache): open(CACHE_FILE, 'w')
SaveOpen(r) ==
    /\ pc[r] = "save_open"
    /\ preSave' = disk
    /\ saveRes' = "running"
    /\ disk' = save_open(disk)
    /\ writes' = [writes EXCEPT ![r] = @ + 1]
    /\ pc' = [pc EXCEPT ![r] = "save_write"]
    /\ UNCHANGED <<now, ticks, lock, warnings, key, snap, path, resp, calls,
                   got, wreq, bg, bgGot, wbg, tchk>>

\* save_cache(cache): json.dump(cache, f), the file is closed, the lock released
SaveWrite(r) ==
    /\ pc[r] = "save_write"
    /\ disk' = save_dump(wreq[r])
    /\ preSave' = disk'
    /\ saveRes' = "ok"
    /\ lock' = IF lock = ReqThread(r) THEN NoThread ELSE lock
    /\ wreq' = [wreq EXCEPT ![r] = EmptyMap]
    /\ pc' = [pc EXCEPT ![r] = "respond"]
    /\ UNCHANGED <<now, ticks, warnings, key, snap, path, resp, calls, got, bg,
                   bgGot, wbg, tchk, writes>>

\* self._send_json(200, raw)
Respond(r) ==
    /\ pc[r] = "respond"
    /\ resp' = [resp EXCEPT ![r] =
                  [status |-> 200, body |-> fetch_api(got[r]).raw]]
    /\ pc' = [pc EXCEPT ![r] = "done"]
    /\ UNCHANGED <<now, ticks, disk, lock, warnings, key, snap, path, calls,
                   got, wreq, bg, bgGot, wbg, tchk, writes, preSave, saveRes>>

(* ---- Handler._bg_refresh ---------------------------------------------- *)
\* _bg_refresh that takes _cache_lock before it calls the upstream.
BgFetchBeginLocked(r) ==
    /\ bg[r] = "fetch"
    /\ lock = NoThread
    /\ lock' = BgThread(r)
    /\ calls' = [calls EXCEPT ![r] = @ + 1]
    /\ bg' = [bg EXCEPT ![r] = "fetching"]
    /\ UNCHANGED <<now, ticks, disk, warnings, pc, key, snap, path, resp, got,
                   wreq, bgGot, wbg, tchk, writes, preSave, saveRes>>

\* _fetch_api: urlopen(req, timeout=API_TIMEOUT) is entered.
BgFetchBegin(r) ==
    /\ bg[r] = "fetch"
    /\ calls' = [calls EXCEPT ![r] = @ + 1]
    /\ bg' = [bg EXCEPT ![r] = "fetching"]
    /\ UNCHANGED <<now, ticks, disk, lock, warnings, pc, key, snap, path, resp,
                   got, wreq, bgGot, wbg, tchk, writes, preSave, saveRes>>

\* _bg_refresh that calls the upstream a second time when the first call
\* was no Success.
BgFetchEndRetry(r, u) ==
    /\ bg[r] = "fetching"
    /\ bgGot' = [bgGot EXCEPT ![r] = u]
    /\ bg' = [bg EXCEPT ![r] =
                IF bg_refresh(u) THEN "rmw"
                ELSE IF calls[r] < 2 THEN "fetch" ELSE "done"]
    /\ UNCHANGED <<now, ticks, disk, lock, warnings, pc, key, snap, path, resp,
                   calls, got, wreq, wbg, tchk, writes, preSave, saveRes>>

\* The call returns or raises; anything but a Success ends the thread.
BgFetchEnd(r, u) ==
    /\ bg[r] = "fetching"
    /\ bgGot' = [bgGot EXCEPT ![r] = u]
    /\ bg' = [bg EXCEPT ![r] = IF bg_refresh(u) THEN "rmw" ELSE "done"]
    /\ UNCHANGED <<now, ticks, disk, lock, warnings, pc, key, snap, path, resp,
                   calls, got, wreq, wbg, tchk, writes, preSave, saveRes>>

BgRmwLoad(r) ==
    /\ bg[r] = "rmw"
    /\ lock = NoThread
    /\ lock' = BgThread(r)
    /\ wbg' = [wbg EXCEPT ![r] =
                 Put(load_cache(disk), key[r], now, fetch_api(bgGot[r]).raw)]
    /\ bg' = [bg EXCEPT ![r] = "save_open"]
    /\ UNCHANGED <<now, ticks, disk, warnings, pc, key, snap, path, resp, calls,
                   got, wreq, bgGot, tchk, writes, preSave, saveRes>>

BgSaveOpen(r) ==
    /\ bg[r] = "save_open"
    /\ preSave' = disk
    /\ saveRes' = "running"
    /\ disk' = save_open(disk)
    /\ writes' = [writes EXCEPT ![r] = @ + 1]
    /\ bg' = [bg EXCEPT ![r] = "save_write"]
    /\ UNCHANGED <<now, ticks, lock, warnings, pc, key, snap, path, resp, calls,
                   got, wreq, bgGot, wbg, tchk>>

BgSaveWrite(r) ==
    /\ bg[r] = "save_write"
    /\ disk' = save_dump(wbg[r])
    /\ preSave' = disk'
    /\ saveRes' = "ok"
    /\ lock' = IF lock = BgThread(r) THEN NoThread ELSE lock
    /\ wbg' = [wbg EXCEPT ![r] = EmptyMap]
    /\ bg' = [bg EXCEPT ![r] = "done"]
    /\ UNCHANGED <<now, ticks, warnings, pc, key, snap, path, resp, calls, got,
                   wreq, bgGot, tchk, writes>>

(* ---- the environment -------------------------------------------------- *)
\* The clock advances.
Tick(d) ==
    /\ ticks < MaxTicks
    /\ ticks' = ticks + 1
    /\ now' = now + d
    /\ UNCHANGED <<disk, lock, warnings, pc, key, snap, path, resp, calls, got,
                   wreq, bg, bgGot, wbg, tchk, writes, preSave, saveRes>>

Next ==
    \/ \E r \in Reqs, k \in Keys : Request(r, k)
    \/ \E r \in Reqs : Load(r)
    \/ \E r \in Reqs : FreshCheck(r)
    \/ \E r \in Reqs : StaleCheck(r)
    \/ \E r \in Reqs : Spawn(r)
    \/ \E r \in Reqs : FetchBegin(r)
    \/ \E r \in Reqs, u \in Upstream : FetchEnd(r, u)
    \/ \E r \in Reqs : RmwLoad(r)
    \/ \E r \in Reqs : SaveOpen(r)
    \/ \E r \in Reqs : SaveWrite(r)
    \/ \E r \in Reqs : Respond(r)
    \/ \E r \in Reqs : BgFetchBegin(r)
    \/ \E r \in Reqs, u \in Upstream : BgFetchEnd(r, u)
    \/ \E r \in Reqs : BgRmwLoad(r)
    \/ \E r \in Reqs : BgSaveOpen(r)
    \/ \E r \in Reqs : BgSaveWrite(r)
    \/ \E d \in TickSteps : Tick(d)

Spec == Init /\ [][Next]_vars

(* ---- faults: a Save that fails, a process that dies ------------------- *)
\* save_cache: open(CACHE_FILE, 'w') raises (the file is locked by another
\* program, no permission); the except clause prints the warning.
SaveOpenFail(r) ==
    /\ pc[r] = "save_open"
    /\ preSave' = disk
    /\ saveRes' = "failed"
    /\ warnings' = warnings + 1
    /\ lock' = IF lock = ReqThread(r) THEN NoThread ELSE lock
    /\ wreq' = [wreq EXCEPT ![r] = EmptyMap]
    /\ pc' = [pc EXCEPT ![r] = "respond"]
    /\ UNCHANGED <<now, ticks, disk, key, snap, path, resp, calls, got, bg,
                   bgGot, wbg, tchk, writes>>

\* save_cache: json.dump or the closing flush raises after the file was
\* truncated (the disk is full, an I/O error).
SaveWriteFail(r) ==
    /\ pc[r] = "save_write"
    /\ saveRes' = "failed"
    /\ warnings' = warnings + 1
    /\ lock' = IF lock = ReqThread(r) THEN NoThread ELSE lock
    /\ wreq' = [wreq EXCEPT ![r] = EmptyMap]
    /\ pc' = [pc EXCEPT ![r] = "respond"]
    /\ UNCHANGED <<now, ticks, disk, key, snap, path, resp, calls, got, bg,
                   bgGot, wbg, tchk, writes, preSave>>

BgSaveOpenFail(r) ==
    /\ bg[r] = "save_open"
    /\ preSave' = disk
    /\ saveRes' = "failed"
    /\ warnings' = warnings + 1
    /\ lock' = IF lock = BgThread(r) THEN NoThread ELSE lock
    /\ wbg' = [wbg EXCEPT ![r] = EmptyMap]
    /\ bg' = [bg EXCEPT ![r] = "done"]
    /\ UNCHANGED <<now, ticks, disk, pc, key, snap, path, resp, calls, got,
                   wreq, bgGot, tchk, writes>>

BgSaveWriteFail(r) ==
    /\ bg[r] = "save_write"
    /\ saveRes' = "failed"
    /\ warnings' = warnings + 1
    /\ lock' = IF lock = BgThread(r) THEN NoThread ELSE lock
    /\ wbg' = [wbg EXCEPT ![r] = EmptyMap]
    /\ bg' = [bg EXCEPT ![r] = "done"]
    /\ UNCHANGED <<now, ticks, disk, pc, key, snap, path, resp, calls, got,
                   wreq, bgGot, tchk, writes, preSave>>

\* The process is killed and started again: every thread is gone (the
\* refresh threads are daemons), the lock is new, CACHE_FILE is as it was.
Alive(r) == pc[r] \notin {"idle", "done", "died", "killed"}
BgAlive(r) == bg[r] \notin {"none", "done", "killed"}

Crash ==
    /\ \E r \in Reqs : Alive(r) \/ BgAlive(r)
    /\ pc' = [r \in Reqs |-> IF Alive(r) THEN "killed" ELSE pc[r]]
    /\ bg' = [r \in Reqs |-> IF BgAlive(r) THEN "killed" ELSE bg[r]]
    /\ lock' = NoThread
    /\ wreq' = [r \in Reqs |-> EmptyMap]
    /\ wbg' = [r \in Reqs |-> EmptyMap]
    /\ saveRes' = IF saveRes = "running" THEN "killed" ELSE saveRes
    /\ UNCHANGED <<now, ticks, disk, warnings, key, snap, path, resp, calls,
                   got, bgGot, tchk, writes, preSave>>

FaultNext ==
    \/ Next
    \/ \E r \in Reqs : SaveOpenFail(r)
    \/ \E r \in Reqs : SaveWriteFail(r)
    \/ \E r \in Reqs : BgSaveOpenFail(r)
    \/ \E r \in Reqs : BgSaveWriteFail(r)
    \/ Crash

FaultSpec == Init /\ [][FaultNext]_vars

(* ---- fairness --------------------------------------------------------- *)
\* Every thread the server has started is scheduled again and again, and an
\* upstream call ends: urlopen returns, raises, or times out after
\* API_TIMEOUT.  Requests and the clock are the environment's.
HandlerStep(r) ==
    \/ Load(r) \/ FreshCheck(r) \/ StaleCheck(r) \/ Spawn(r) \/ FetchBegin(r)
    \/ (\E u \in Upstream : FetchEnd(r, u))
    \/ RmwLoad(r) \/ SaveOpen(r) \/ SaveWrite(r) \/ Respond(r)

BgStep(r) ==
    \/ BgFetchBegin(r)
    \/ (\E u \in Upstream : BgFetchEnd(r, u))
    \/ BgRmwLoad(r) \/ BgSaveOpen(r) \/ BgSaveWrite(r)

LiveSpec ==
    /\ Init
    /\ [][Next]_vars
    /\ \A r \in Reqs : WF_vars(HandlerStep(r)) /\ WF_vars(BgStep(r))

\* DetachedSpec: the handler threads are scheduled fairly and a save_cache
\* that a refresh thread has begun goes on, but nothing is assumed about a
\* refresh's upstream call: it may never return.
BgSaveStep(r) == BgSaveOpen(r) \/ BgSaveWrite(r)

DetachedSpec ==
    /\ Init
    /\ [][Next]_vars
    /\ \A r \in Reqs : WF_vars(HandlerStep(r)) /\ WF_vars(BgSaveStep(r))

(* ======================================================================= *)
(* Properties                                                              *)
(* ======================================================================= *)
\* get_cached has run for r (the clock never reads 0).
Checked(r) == tchk[r] # 0
\* The entry of r's key in the snapshot r loaded.
HasEntry(r) == key[r] \in DOMAIN snap[r]
Stored(r) == snap[r][key[r]]
\* proxy_api of r has chosen its branch.
Classified(r) == pc[r] \notin {"idle", "load", "fresh_check", "stale_check"}
\* A Success: a 2xx response whose data field is present and not null.
IsSuccess(u) == u.kind = "ok" /\ u.body \in {"d1", "dEmpty"}

\* C1 (Fresh-hit).  A request whose key has, in the snapshot it loaded, an
\* entry younger than CACHE_TTL at the time of the check is answered 200 with
\* exactly the stored payload, causes no upstream call and starts no
\* background refresh.
C1_FreshHit ==
    \A r \in Reqs :
        (Checked(r) /\ HasEntry(r) /\ tchk[r] - Stored(r).ts < CACHE_TTL)
        => /\ path[r] = "fresh"
           /\ pc[r] = "done"
           /\ resp[r] = [status |-> 200, body |-> Stored(r).data]
           /\ calls[r] = 0
           /\ got[r] = NoCall
           /\ bg[r] = "none"

\* A fresh hit on an entry one second short of the TTL.
C1_Witness ==
    \E r \in Reqs :
        /\ path[r] = "fresh"
        /\ HasEntry(r)
        /\ tchk[r] - Stored(r).ts = CACHE_TTL - 1
        /\ resp[r].status = 200

\* C2 (Stale-hit is non-blocking).  A request whose key has an entry of age
\* >= CACHE_TTL in its snapshot is answered 200 with the stored payload by
\* the handler itself, which never calls the upstream; no upstream call on
\* its behalf begins before the response is sent; and the response stays what
\* it was whatever the refresh's call does afterwards.
C2_StaleNonBlocking ==
    \A r \in Reqs :
        (Checked(r) /\ HasEntry(r) /\ tchk[r] - Stored(r).ts >= CACHE_TTL)
        => /\ pc[r] \in {"stale_check", "spawn", "done"}
           /\ got[r] = NoCall
           /\ pc[r] # "stale_check" =>
                 /\ path[r] = "stale"
                 /\ resp[r] = [status |-> 200, body |-> Stored(r).data]
           /\ (calls[r] > 0 \/ bg[r] # "none") => resp[r] # NoResp

\* The stale payload has been sent and the refresh's call is still under way.
C2_Witness ==
    \E r \in Reqs :
        /\ path[r] = "stale"
        /\ resp[r].status = 200
        /\ bg[r] = "fetching"
        /\ tchk[r] - Stored(r).ts = CACHE_TTL

\* C3 (one refresh call per stale hit).  Under LiveSpec: a stale hit is
\* followed by an upstream call, there is never a second one, and the call
\* is the refresh thread's, not the handler's.
C3_OneRefreshCall ==
    \A r \in Reqs :
        /\ [](path[r] = "stale" =>
                /\ calls[r] <= 1
                /\ got[r] = NoCall
                /\ calls[r] = 1 => bg[r] \notin {"none", "fetch"})
        /\ (path[r] = "stale") ~> (calls[r] = 1 /\ bg[r] = "done")

\* A stale hit whose refresh has made its call and ended.
C3_Witness ==
    \E r \in Reqs : path[r] = "stale" /\ calls[r] = 1 /\ bg[r] = "done"

\* C4 (Miss).  A request whose key is absent from its snapshot takes the
\* live fetch; its response is sent only after its one upstream call has
\* ended; and no request, on any path, has more than one upstream call made
\* for it.
C4_MissOneCall ==
    \A r \in Reqs :
        /\ calls[r] <= 1
        /\ (Classified(r) /\ ~HasEntry(r)) => path[r] = "miss"
        /\ path[r] = "miss" =>
              /\ bg[r] = "none"
              /\ resp[r] # NoResp =>
                    /\ calls[r] = 1
                    /\ got[r] \in Upstream
                    /\ pc[r] = "done"
              /\ pc[r] \in {"fetch", "fetching"} => got[r] = NoCall

\* A miss answered after its call timed out.
C4_Witness ==
    \E r \in Reqs :
        /\ path[r] = "miss"
        /\ ~HasEntry(r)
        /\ got[r].kind = "fail"
        /\ resp[r] # NoResp
        /\ calls[r] = 1

\* C5 (only Success is cached).  Whenever the file holds a mapping, every
\* payload in it has a data field that is present and not null; and a
\* request whose threads wrote the file got a Success from the upstream,
\* on the live fetch or on the refresh.
C5_OnlySuccessCached ==
    /\ disk.kind = "valid" =>
          \A k \in DOMAIN disk.doc :
              DataNotNone(Parse(load_cache(disk)[k].data))
    /\ \A r \in Reqs :
          writes[r] > 0 =>
             \/ path[r] = "miss" /\ IsSuccess(got[r])
             \/ path[r] = "stale" /\ IsSuccess(bgGot[r])

\* An empty result list was cached by a refresh while another request got
\* a rate-limit message on its live fetch.
C5_Witness ==
    /\ disk.kind = "valid"
    /\ \E r \in Reqs :
          /\ bgGot[r].body = "dEmpty"
          /\ bg[r] = "done"
          /\ key[r] \in DOMAIN disk.doc
          /\ load_cache(disk)[key[r]].data = "dEmpty"
    /\ \E r \in Reqs :
          /\ path[r] = "miss"
          /\ got[r].body = "msg"
          /\ pc[r] = "done"
          /\ key[r] \notin DOMAIN disk.doc

\* The requests that have arrived, and a request all of whose threads ended.
Started == {r \in Reqs : pc[r] # "idle"}
Finished(r) == pc[r] = "done" /\ bg[r] \in {"none", "done"}
\* Every upstream call made for r, if any, was a Success, with payload:
GotSuccess(r) ==
    /\ path[r] = "miss" => IsSuccess(got[r])
    /\ path[r] = "stale" => IsSuccess(bgGot[r])
Fetched(r) ==
    IF path[r] = "miss" THEN Decode(got[r].body) ELSE Decode(bgGot[r].body)

\* C6 (no lost update across keys).  When the requests that arrived are for
\* pairwise distinct keys, all their threads have ended and every upstream
\* call was a Success, the file holds a mapping with an entry for each of
\* their keys (the fetched payload, where one was fetched).  And a thread
\* that is about to save holds the lock, and the dict it saves is the
\* file's current content with its own entry put in.
C6_NoLostUpdate ==
    /\ (/\ Started # {}
        /\ \A r \in Started :
              /\ Finished(r)
              /\ GotSuccess(r)
              /\ \A q \in Started : q # r => key[q] # key[r])
       => /\ disk.kind = "valid"
          /\ \A r \in Started :
                /\ key[r] \in DOMAIN disk.doc
                /\ path[r] # "fresh" =>
                      load_cache(disk)[key[r]].data = Fetched(r)
    /\ \A r \in Reqs :
          /\ pc[r] \in {"save_open", "save_write"} => lock = ReqThread(r)
          /\ bg[r] \in {"save_open", "save_write"} => lock = BgThread(r)
          /\ pc[r] = "save_open" =>
                \A k \in DOMAIN load_cache(disk) \ {key[r]} :
                    k \in DOMAIN wreq[r] /\ wreq[r][k] = load_cache(disk)[k]
          /\ bg[r] = "save_open" =>
                \A k \in DOMAIN load_cache(disk) \ {key[r]} :
                    k \in DOMAIN wbg[r] /\ wbg[r][k] = load_cache(disk)[k]

\* Two requests for two keys, neither of them in the snapshot either
\* loaded, both fetched with Success and both written.
C6_Witness ==
    \E r, q \in Reqs :
        /\ key[r] # key[q]
        /\ Finished(r) /\ Finished(q)
        /\ writes[r] = 1 /\ writes[q] = 1
        /\ ~HasEntry(r) /\ ~HasEntry(q)
        /\ key[q] \notin DOMAIN snap[r] /\ key[r] \notin DOMAIN snap[q]
        /\ disk.kind = "valid"
        /\ DOMAIN disk.doc = {key[r], key[q]}

\* C7 (the document is never left partially written) -- as claimed.  Outside
\* a running save_cache (nobody holds the lock), CACHE_FILE is missing or
\* holds a whole mapping.  FaultSpec violates it: open(.., 'w') truncates
\* the file in place, and a kill or a failed write leaves it so.
C7_NeverPartial ==
    lock = NoThread => disk.kind \in {"missing", "valid"}

\* C8 (a failed Save leaves the file as it was) -- as claimed.  When the
\* latest save_cache ended in its except clause, the warning was printed and
\* CACHE_FILE is what it was when save_cache was entered.  FaultSpec violates
\* it: the write fails after open(.., 'w') has emptied the file.
C8_FailedSaveKeepsDisk ==
    saveRes = "failed" => warnings > 0 /\ disk = preSave

\* The upstream's answer u is a response whose body is a JSON object with a
\* message field and no data field.
MessageNoData(u) ==
    /\ u.kind \in {"ok", "http"}
    /\ Parse(Decode(u.body)).dict
    /\ Parse(Decode(u.body)).message
    /\ Parse(Decode(u.body)).data = "absent"
ValidUtf8(b) == b # "msgBad"

\* C9 (rate limit on a Miss) -- as claimed.  A miss whose upstream response
\* carries a message field and no data field is answered 429 with the
\* upstream's body verbatim, and the request writes nothing.  Spec violates
\* it: a non-2xx response is passed through with its own status, and a body
\* that is not valid UTF-8 is not passed on verbatim.
C9_RateLimitOriginal ==
    \A r \in Reqs :
        (path[r] = "miss" /\ resp[r] # NoResp /\ MessageNoData(got[r]))
        => /\ resp[r] = [status |-> 429, body |-> got[r].body]
           /\ writes[r] = 0

\* C9, amended.  A miss whose upstream response is a 2xx response with such
\* a body is answered 429 with the body as decoded (UTF-8, invalid bytes
\* replaced: the upstream's body itself when that is valid UTF-8), and the
\* request writes nothing.
C9_RateLimit2xx ==
    \A r \in Reqs :
        (/\ path[r] = "miss"
         /\ resp[r] # NoResp
         /\ MessageNoData(got[r])
         /\ got[r].kind = "ok")
        => /\ resp[r] = [status |-> 429, body |-> Decode(got[r].body)]
           /\ ValidUtf8(got[r].body) => resp[r].body = got[r].body
           /\ writes[r] = 0
           /\ pc[r] = "done"

\* A miss answered 429 with the upstream's message while another request
\* has written the cache file.
C9_Witness ==
    \E r, q \in Reqs :
        /\ path[r] = "miss"
        /\ got[r] = [kind |-> "ok", code |-> 200, body |-> "msg"]
        /\ resp[r] = [status |-> 429, body |-> "msg"]
        /\ writes[q] = 1

\* The upstream call timed out or failed in transport, or its 2xx body is
\* not JSON.
TransportOrParseFailure(u) ==
    \/ u.kind = "fail"
    \/ u.kind = "ok" /\ ~Parse(Decode(u.body)).json

Ended(r) == pc[r] \in {"done", "died"}
\* UpstreamError: a non-2xx response, or no response at all.
UpstreamError(u) == u.kind \in {"http", "fail"}
\* A payload made by the except clause: {'message': str(e), 'data': None}.
Synthesized(b) ==
    Parse(b).dict /\ Parse(b).message /\ Parse(b).data = "null"

C12_EveryRequestAnswered ==
    \A r \in Reqs : Ended(r) => resp[r] # NoResp

\* The keys a reader of CACHE_FILE finds.
PersistedKeys(d) == DOMAIN load_cache(d)

\* C13 (no entry is ever deleted) -- as claimed.  Whenever no save_cache is
\* running, every key that a request found persisted when it loaded the file
\* is still persisted, and so is every key that was persisted when the
\* latest save_cache was entered.  FaultSpec violates it: a save_cache that
\* fails or is killed after open(.., 'w') leaves an empty file, and the next
\* write persists its own key alone.
C13_KeysNeverShrink ==
    lock = NoThread =>
        /\ \A r \in Reqs : DOMAIN snap[r] \subseteq PersistedKeys(disk)
        /\ PersistedKeys(preSave) \subseteq PersistedKeys(disk)

\* C14 (idempotence of a fresh hit).  When the requests that have arrived
\* are two or more, all for the same key and all fresh hits, with nothing
\* else done in between, each got status 200 and the same payload as the
\* others, none caused an upstream call or a write, and CACHE_FILE still
\* reads as the snapshot each of them loaded.
C14_FreshTwice ==
    (/\ Cardinality(Started) >= 2
     /\ \A p, q \in Started :
           key[p] = key[q] /\ path[p] = "fresh" /\ path[q] = "fresh")
    => \A p, q \in Started :
          /\ resp[p].status = 200
          /\ resp[p] = resp[q]
          /\ writes[p] = 0
          /\ calls[p] = 0
          /\ bg[p] = "none"
          /\ snap[p] = load_cache(disk)
          /\ saveRes = "none"

\* The same key resolved twice, one resolution after the other, both fresh.
C14_Witness ==
    \E p, q \in Reqs :
        /\ p < q
        /\ key[p] = key[q]
        /\ path[p] = "fresh" /\ path[q] = "fresh"
        /\ pc[p] = "done" /\ pc[q] = "done"
        /\ resp[q] = [status |-> 200, body |-> "d0"]

\* C15 (round trip), first part: the step that ends a successful save_cache
\* leaves a file from which load_cache reads, for every key and for the key
\* just put in particular, the timestamp and payload that were saved.
SavedReadsBack(w, k) ==
    /\ disk'.kind = "valid"
    /\ load_cache(disk') = w
    /\ k \in DOMAIN w
RoundTripStep ==
    \A r \in Reqs :
        /\ (pc[r] = "save_write" /\ pc'[r] = "respond" /\ saveRes' = "ok")
              => /\ SavedReadsBack(wreq[r], key[r])
                 /\ load_cache(disk')[key[r]].data = fetch_api(got[r]).raw
        /\ (bg[r] = "save_write" /\ bg'[r] = "done" /\ saveRes' = "ok")
              => /\ SavedReadsBack(wbg[r], key[r])
                 /\ load_cache(disk')[key[r]].data = fetch_api(bgGot[r]).raw

\* Second part: after a successful miss, while no other thread has written
\* the same key, the payload read back from the file for the key is the
\* payload that was sent to the client.
MissPersistsResponse ==
    \A r \in Reqs :
        (/\ path[r] = "miss"
         /\ pc[r] = "done"
         /\ writes[r] = 1
         /\ \A q \in Reqs \ {r} : key[q] = key[r] => writes[q] = 0)
        => /\ disk.kind = "valid" \/ lock # NoThread
           /\ disk.kind = "valid" =>
                 /\ key[r] \in DOMAIN load_cache(disk)
                 /\ load_cache(disk)[key[r]].data = resp[r].body
                 /\ resp[r].status = 200

LoadStep ==
    \A r \in Reqs :
        (pc[r] = "load" /\ pc'[r] \notin {"load", "killed"})
        => /\ pc'[r] = "fresh_check"
           /\ lock' = lock
           /\ disk.kind # "valid" => snap'[r] = EmptyMap

\* and what follows: with an empty snapshot the key is absent and the
\* resolution takes the miss path.
EmptyIsMiss ==
    \A r \in Reqs :
        (snap[r] = EmptyMap /\ Classified(r) /\ pc[r] # "killed")
        => path[r] = "miss"

\* C16 (Load never fails).  When the persisted document is missing or was
\* left partially written, load_cache returns the empty mapping, the key is
\* absent and the resolution goes on along the miss path.
C16_LoadNeverFails == [][LoadStep]_vars /\ []EmptyIsMiss

\* A save_cache failed after truncating a file that held r's key; r then
\* loaded what was left, found nothing and has been answered on the miss
\* path.
C16_Witness ==
    \E r \in Reqs :
        /\ saveRes = "failed"
        /\ disk.kind = "partial"
        /\ key[r] \in PersistedKeys(preSave)
        /\ snap[r] = EmptyMap
        /\ path[r] = "miss"
        /\ pc[r] = "done"
        /\ resp[r] # NoResp

\* No thread of a request for key k has written CACHE_FILE.
Unwritten(k) == \A p \in Reqs : key[p] = k => writes[p] = 0

\* C17 (a failed refresh is silent).  A background refresh that ended on
\* anything but a Success made one upstream call and no write, and the
\* client's response is still the stale payload; and while no thread has
\* written the key, the file holds the entry as it was and every
\* resolution of the key that checks freshness no earlier than this one did
\* is a stale hit again, which starts a refresh of its own.
C17_FailedRefreshSilent ==
    \A r \in Reqs :
        (path[r] = "stale" /\ bg[r] = "done" /\ ~IsSuccess(bgGot[r]))
        => /\ calls[r] = 1
           /\ writes[r] = 0
           /\ pc[r] = "done"
           /\ resp[r] = [status |-> 200, body |-> Stored(r).data]
           /\ (Unwritten(key[r]) /\ disk.kind = "valid") =>
                 /\ key[r] \in PersistedKeys(disk)
                 /\ load_cache(disk)[key[r]] = Stored(r)
           /\ \A q \in Reqs \ {r} :
                 (/\ key[q] = key[r]
                  /\ Unwritten(key[r])
                  /\ Classified(q)
                  /\ tchk[q] >= tchk[r])
                 => /\ path[q] = "stale"
                    /\ resp[q] = resp[r]
                    /\ pc[q] = "done" => bg[q] # "none"

\* A refresh ended on a timeout; the next request for the key is a stale
\* hit too and its refresh is calling the upstream.
C17_Witness ==
    \E r, q \in Reqs :
        /\ r < q
        /\ key[q] = key[r]
        /\ path[r] = "stale" /\ bg[r] = "done" /\ bgGot[r].kind = "fail"
        /\ path[q] = "stale" /\ bg[q] = "fetching"
        /\ load_cache(disk)[key[r]] = Stored(r)

\* C18 (no request waits on a refresh).  Under DetachedSpec, where a
\* refresh's upstream call need never end: no thread holds the lock while it
\* is in an upstream call, and every request that has arrived runs to the
\* end of its handler.
C18_NoWaitOnRefresh ==
    /\ [](\A r \in Reqs :
             /\ bg[r] \in {"fetch", "fetching"} => lock # BgThread(r)
             /\ pc[r] \in {"fetch", "fetching"} => lock # ReqThread(r))
    /\ \A q \in Reqs : (pc[q] # "idle") ~> Ended(q)

\* The refresh of r is in its upstream call, and a later request has taken
\* the lock to load and again to write, and has been answered.
C18_Witness ==
    \E r, q \in Reqs :
        /\ r < q
        /\ bg[r] = "fetching"
        /\ bgGot[r] = NoCall
        /\ path[q] = "miss"
        /\ writes[q] = 1
        /\ pc[q] = "done"
        /\ resp[q].status = 200
        /\ lock = NoThread

\* C19 (load once, classify once), the step: once a handler has loaded, no
\* step changes its snapshot, and the stale check comes after the fresh one.
SnapshotStep ==
    \A r \in Reqs :
        /\ pc[r] \notin {"idle", "load"} => snap'[r] = snap[r]
        /\ pc'[r] = "stale_check" => pc[r] \in {"fresh_check", "stale_check"}
        /\ (pc[r] = "fresh_check" /\ pc'[r] # pc[r])
              => pc'[r] \in {"done", "stale_check"}

\* and the outcome: the path taken is the one the snapshot and the clock of
\* the fresh check give, whatever CACHE_FILE holds by then.
ClassifiedBySnapshot ==
    \A r \in Reqs :
        Classified(r) =>
            /\ path[r] = "fresh" <=>
                  (HasEntry(r) /\ tchk[r] - Stored(r).ts < CACHE_TTL)
            /\ path[r] = "stale" <=>
                  (HasEntry(r) /\ tchk[r] - Stored(r).ts >= CACHE_TTL)
            /\ path[r] = "miss" <=> ~HasEntry(r)

\* C19 (load once, classify once).  The fresh check and then the stale
\* check run against the one snapshot the handler loaded; a write by another
\* thread between the two checks does not change the path taken.
C19_LoadOnceClassifyOnce == [][SnapshotStep]_vars /\ []ClassifiedBySnapshot

\* After r loaded its snapshot another request has written r's key; r is
\* resolved as a miss all the same.
C19_Witness ==
    \E r \in Reqs :
        /\ path[r] = "miss"
        /\ pc[r] = "fetch"
        /\ disk.kind = "valid"
        /\ key[r] \in PersistedKeys(disk)
        /\ \E q \in Reqs \ {r} : key[q] = key[r] /\ writes[q] = 1

\* The upstream's answer u is a 2xx response whose body is a JSON object
\* with no data field, or a null one, and no message field.
UnknownShape(u) ==
    /\ u.kind = "ok"
    /\ Parse(Decode(u.body)).dict
    /\ ~DataNotNone(Parse(Decode(u.body)))
    /\ ~Parse(Decode(u.body)).message

\* C20 (unknown response shape on a Miss).  A miss whose upstream response
\* is 2xx with a body that has neither a non-null data field nor a message
\* field is answered 200 with raw, the body as _fetch_api decoded it, and
\* nothing is written.
C20_UnknownShape ==
    \A r \in Reqs :
        (path[r] = "miss" /\ Ended(r) /\ UnknownShape(got[r]))
        => /\ resp[r] = [status |-> 200, body |-> Decode(got[r].body)]
           /\ writes[r] = 0
           /\ pc[r] = "done"
           /\ Unwritten(key[r]) => key[r] \notin PersistedKeys(disk)

\* One miss answered 200 with {"total": 0}, another with {"data": null},
\* and the file holds neither key.
C20_Witness ==
    \E r, q \in Reqs :
        /\ path[r] = "miss" /\ got[r].kind = "ok"
        /\ resp[r] = [status |-> 200, body |-> "unk"]
        /\ path[q] = "miss" /\ got[q].kind = "ok"
        /\ resp[q] = [status |-> 200, body |-> "dNull"]
        /\ key[r] \notin PersistedKeys(disk)
        /\ key[q] \notin PersistedKeys(disk)

====
